---------------------------- MODULE Spec2Model ----------------------------
(* A model of the nuxt4-scaffolder CLI (src/index.js): the sequential      *)
(* scaffolding pipeline, the textual patches it applies to nuxt.config.ts  *)
(* and the project tree it leaves behind.                                  *)
(*                                                                         *)
(* Text is modelled as a sequence of lexemes (strings): each lexeme is a   *)
(* piece of text the program's regular expressions and substring tests     *)
(* treat as a unit.  The project tree is a set of directory paths and a    *)
(* function from file paths to contents; a path is a tuple of segments     *)
(* relative to the project directory.                                      *)
EXTENDS Integers, Sequences, FiniteSets, TLC

VARIABLES
    \* ---- the pipeline (src/index.js:11-415)
    pc,            \* the statement the async function is about to execute
    runState,      \* PENDING / RUNNING / COMPLETED / FAILED
    exitCode,      \* "none" while running, then "0" or "1"
    out,           \* what has been printed, in order
    trace,         \* <<step, outcome>> of every step executed, in order
    projectName,   \* the answer to the prompt
    dirs,          \* directories of the project tree
    files,         \* files of the project tree (path -> content)
    cfgDisk,       \* nuxt.config.ts on disk (lexemes)
    pkg,           \* package.json on disk
    tsconfig,      \* tsconfig.json on disk
    isNuxt4Structure, \* the local of step 8, read again by step 9
    world,         \* what the project initializer produced (never changes)
    cfgMem,        \* the locals cfg, cfg1, cfg2: the last text read from
                   \* nuxt.config.ts and the epoch of the file it was read in
    cfgEpoch,      \* number of tool invocations and writes of nuxt.config.ts
    \* ---- the patch operations applied on their own
    doc,           \* the configuration text
    prevDoc,       \* the text before the last operation
    input,         \* the parts the initial text was rendered from
    lastOp,        \* the last operation applied
    phase,         \* "input", "once", "twice"
    \* ---- step 8 applied on its own to a project tree
    tree0,         \* the tree step 8 is first applied to
    prevTree,      \* the tree before the last operation
    ops            \* the operations applied so far, with their verdicts

pipeVars == <<pc, runState, exitCode, out, trace, projectName, dirs, files,
              cfgDisk, pkg, tsconfig, isNuxt4Structure, world, cfgMem, cfgEpoch>>
patchVars == <<doc, prevDoc, input, lastOp, phase>>
layoutVars == <<tree0, prevTree, ops>>
vars == <<pipeVars, patchVars, layoutVars>>

-----------------------------------------------------------------------------
(* Bounds of the model.                                                    *)

\* the longest module array the patch operations are tried on
MaxEntries == 2

\* how many times in a row step 8's operations are applied to a tree
MaxLayoutOps == 2

-----------------------------------------------------------------------------
(* Lexemes of nuxt.config.ts.                                              *)

T_IMPORT == "import tailwindcss from '@tailwindcss/vite'"
T_EXPORT == "export default "
T_DNC == "defineNuxtConfig({"
T_CSS == "css: ['~/app/assets/css/tailwind.css'],"
T_VITE == "vite: { plugins: [tailwindcss()] },"
T_MODS == "modules: ["
T_MODS_TIGHT == "modules:["
T_RB == "]"
T_SHADCN == ", shadcn: { prefix: '', componentDir: 'app/components/ui' }"
T_SHADCN_USER == "shadcn: {}"
T_CLOSE == "})"
SQ == "'"
DQ == "\""
COMMA == ","
SP == " "

\* the module name step 6 merges
SHADCN_NUXT == "shadcn-nuxt"

ModuleNames == {"@x/image", "@x/icon", "pinia", SHADCN_NUXT}

-----------------------------------------------------------------------------
(* Sequence helpers.                                                       *)

\* the least index of a lexeme of s that lies in S, 0 when there is none
FirstIn(s, S) ==
    IF \E i \in 1..Len(s) : s[i] \in S
    THEN CHOOSE i \in 1..Len(s) : s[i] \in S /\ \A j \in 1..(i-1) : s[j] \notin S
    ELSE 0

Includes(s, S) == \E i \in 1..Len(s) : s[i] \in S

\* String.prototype.split on a one-lexeme separator: "" splits into [""]
RECURSIVE Split(_, _)
Split(s, sep) ==
    LET i == FirstIn(s, {sep}) IN
    IF i = 0 THEN <<s>>
    ELSE <<SubSeq(s, 1, i-1)>> \o Split(SubSeq(s, i+1, Len(s)), sep)

RECURSIVE StripLeft(_, _)
StripLeft(s, S) ==
    IF s # <<>> /\ Head(s) \in S THEN StripLeft(Tail(s), S) ELSE s

RECURSIVE StripRight(_, _)
StripRight(s, S) ==
    IF s # <<>> /\ s[Len(s)] \in S THEN StripRight(SubSeq(s, 1, Len(s)-1), S) ELSE s

\* Array.prototype.join
RECURSIVE Join(_, _)
Join(ss, sep) ==
    IF ss = <<>> THEN <<>>
    ELSE IF Len(ss) = 1 THEN Head(ss)
    ELSE Head(ss) \o sep \o Join(Tail(ss), sep)

-----------------------------------------------------------------------------
(* The patch operations on the configuration text.                         *)

\* step 3: cfg.replace(/defineNuxtConfig\(\{/, `defineNuxtConfig({`)
normalizeFactoryCall(d) ==
    LET i == FirstIn(d, {T_DNC}) IN
    IF i = 0 THEN d
    ELSE SubSeq(d, 1, i-1) \o <<T_DNC>> \o SubSeq(d, i+1, Len(d))

\* step 4: the css and vite lines put after the first defineNuxtConfig({
ensureTopLevelDefaults(d) ==
    LET i == FirstIn(d, {T_DNC}) IN
    IF i = 0 THEN d
    ELSE SubSeq(d, 1, i-1) \o <<T_DNC, T_CSS, T_VITE>> \o SubSeq(d, i+1, Len(d))

\* ensureImport without its includes() test
ensureImport_unguarded(d) == <<T_IMPORT>> \o d

\* step 4: the tailwindcss import prepended unless the text includes it
ensureImport(d) ==
    IF ~Includes(d, {T_IMPORT}) THEN <<T_IMPORT>> \o d ELSE d

\* the leftmost match of /modules\s*:\s*\[([^\]]*)]/ as <<first, last>>
\* (indexes of the opening lexeme and of the closing bracket), <<0, 0>>
\* when the text has no match
ModulesMatch(d) ==
    LET Opens == {i \in 1..Len(d) :
                    /\ d[i] \in {T_MODS, T_MODS_TIGHT}
                    /\ \E j \in (i+1)..Len(d) : d[j] = T_RB}
    IN IF Opens = {} THEN <<0, 0>>
       ELSE LET i == CHOOSE x \in Opens : \A y \in Opens : x <= y
                j == CHOOSE x \in (i+1)..Len(d) :
                        d[x] = T_RB /\ \A y \in (i+1)..(x-1) : d[y] # T_RB
            IN <<i, j>>

\* s.trim().replace(/^['"\s]+|['"\s]+$/g, "")
StripEntry(s) == StripRight(StripLeft(s, {SQ, DQ, SP}), {SQ, DQ, SP})

\* mods.split(",").map(...)
ParseEntries(body) ==
    LET parts == Split(body, COMMA) IN
    [k \in 1..Len(parts) |-> StripEntry(parts[k])]

\* list.map((m) => `'${m}'`).join(", ")
SerializeEntries(list) ==
    Join([k \in 1..Len(list) |-> <<SQ>> \o list[k] \o <<SQ>>], <<COMMA, SP>>)

ListIncludes(list, m) == \E k \in 1..Len(list) : list[k] = <<m>>

\* step 6, 1): merge the module name into the first modules array
mergeIntoModuleList(d, m) ==
    LET mt == ModulesMatch(d) IN
    IF mt[1] = 0 THEN d
    ELSE LET list == ParseEntries(SubSeq(d, mt[1]+1, mt[2]-1))
             merged == IF ~ListIncludes(list, m) THEN Append(list, <<m>>) ELSE list
         IN SubSeq(d, 1, mt[1]-1)
              \o <<T_MODS>> \o SerializeEntries(merged) \o <<T_RB>>
              \o SubSeq(d, mt[2]+1, Len(d))

\* the lexemes whose text includes "shadcn:"
ShadcnKeyLexemes == {T_SHADCN, T_SHADCN_USER}

\* step 6, 2): the shadcn block put after the modules array unless the
\* text includes "shadcn:"
insertKeyBlockIfAbsent(d) ==
    IF ~Includes(d, ShadcnKeyLexemes)
    THEN LET mt == ModulesMatch(d) IN
         IF mt[1] = 0 THEN d
         ELSE SubSeq(d, 1, mt[2]) \o <<T_SHADCN>> \o SubSeq(d, mt[2]+1, Len(d))
    ELSE d

-----------------------------------------------------------------------------
(* The configuration texts the patch operations are tried on, each rendered *)
(* from its parts: an optional import line, the factory call with or       *)
(* without the default option lines, a modules array written in one of     *)
(* several styles, an optional shadcn key.                                 *)

EntryLists == UNION {[1..n -> ModuleNames] : n \in 0..MaxEntries}

Inputs ==
    [imp : BOOLEAN,
     dnc : {"none", "bare", "defaults"},
     mods : {"none", T_MODS, T_MODS_TIGHT},
     entries : EntryLists,
     quote : {<<>>, <<SQ>>, <<DQ>>},
     sep : {<<COMMA>>, <<COMMA, SP>>},
     trail : {<<>>, <<COMMA>>, <<SP>>},
     shadcn : BOOLEAN]

\* one rendering per text: the array's parts are fixed when there is no array
WellFormedInput(in) ==
    in.mods = "none" =>
        /\ in.entries = <<>>
        /\ in.quote = <<>>
        /\ in.sep = <<COMMA>>
        /\ in.trail = <<>>

RenderArray(hdr, entries, quote, sep, trail) ==
    <<hdr>>
      \o Join([k \in 1..Len(entries) |-> quote \o <<entries[k]>> \o quote], sep)
      \o trail \o <<T_RB>>

RenderWith(in, array) ==
    (IF in.imp THEN <<T_IMPORT>> ELSE <<>>)
      \o <<T_EXPORT>>
      \o (CASE in.dnc = "none" -> <<>>
            [] in.dnc = "bare" -> <<T_DNC>>
            [] in.dnc = "defaults" -> <<T_DNC, T_CSS, T_VITE>>)
      \o array
      \o (IF in.shadcn THEN <<COMMA, T_SHADCN_USER>> ELSE <<>>)
      \o <<T_CLOSE>>

Render(in) ==
    RenderWith(in,
        IF in.mods = "none" THEN <<>>
        ELSE RenderArray(in.mods, in.entries, in.quote, in.sep, in.trail))

-----------------------------------------------------------------------------
(* The project tree: fs-extra's and fs.promises' operations.               *)

IsPrefix(p, q) == Len(p) <= Len(q) /\ SubSeq(q, 1, Len(p)) = p

Prefixes(p) == {SubSeq(p, 1, k) : k \in 1..Len(p)}

Parent(p) == SubSeq(p, 1, Len(p) - 1)

\* fse.pathExists
PathExists(D, F, p) == p \in D \/ p \in DOMAIN F

\* fse.ensureDir: the directory and every missing ancestor
EnsureDir(D, p) == D \cup Prefixes(p)

\* fs.readdir: the names directly under p
Readdir(D, F, p) ==
    {q[Len(p) + 1] : q \in {x \in D \cup DOMAIN F : IsPrefix(p, x) /\ Len(x) > Len(p)}}

\* fs.writeFile needs the parent directory
CanWrite(D, p) == Len(p) = 1 \/ Parent(p) \in D

WriteFile(F, p, c) == [q \in DOMAIN F \cup {p} |-> IF q = p THEN c ELSE F[q]]

Rebase(q, src, dest) == dest \o SubSeq(q, Len(src) + 1, Len(q))

\* fse.move(src, dest, { overwrite: true }): dest is removed, then src is
\* renamed to dest
MoveDirs(D, src, dest) ==
    {q \in D : ~IsPrefix(dest, q) /\ ~IsPrefix(src, q)}
      \cup {Rebase(q, src, dest) : q \in {x \in D : IsPrefix(src, x)}}

\* a move that would put src inside dest instead of in its place
MoveFiles_nested(F, src, dest) ==
    LET keep == {q \in DOMAIN F : ~IsPrefix(src, q)}
        moved == {q \in DOMAIN F : IsPrefix(src, q)}
    IN [p \in keep \cup {dest \o q : q \in moved} |->
          IF p \in keep THEN F[p]
          ELSE F[CHOOSE q \in moved : dest \o q = p]]

MoveFiles(F, src, dest) ==
    LET keep == {q \in DOMAIN F : ~IsPrefix(dest, q) /\ ~IsPrefix(src, q)}
        moved == {q \in DOMAIN F : IsPrefix(src, q)}
    IN [p \in keep \cup {Rebase(q, src, dest) : q \in moved} |->
          IF p \in keep THEN F[p]
          ELSE F[CHOOSE q \in moved : Rebase(q, src, dest) = p]]

-----------------------------------------------------------------------------
(* Paths and contents of the pipeline.                                     *)

APP == <<"app">>
P_CSS_DIR == <<"app", "assets", "css">>
P_CSS == <<"app", "assets", "css", "tailwind.css">>
P_APP_VUE_SRC == <<"app.vue">>
P_APP_VUE == <<"app", "app.vue">>
P_LAYOUT_DIR == <<"app", "layouts">>
P_LAYOUT == <<"app", "layouts", "default.vue">>
P_PAGE_DIR == <<"app", "pages">>
P_INDEX == <<"app", "pages", "index.vue">>
P_STORES_DIR == <<"app", "stores">>
P_STORE == <<"app", "stores", "example.ts">>
P_UI_DIR == <<"app", "components", "ui">>
P_BUTTON == <<"app", "components", "ui", "button.vue">>

\* step 8's items, in the order of the loop
Items == <<"components", "composables", "pages", "layouts", "lib", "stores">>

CSS_CONTENT == "@import tailwindcss;"
APP_VUE_CONTENT == "appVueContent"
LAYOUT_CONTENT == "defaultLayoutContent"
INDEX_CONTENT == "indexVueContent: <Button>Click Me!</Button>"
UPDATED_INDEX_CONTENT == "updatedIndexVueContent"
STORE_CONTENT == "storeContent"
USER_PLAIN == "user content"
USER_BUTTON == "user content: <Button>Click Me!</Button>"
TOOL_CONTENT == "written by shadcn-vue"

\* content.includes("<Button>Click Me!</Button>")
IncludesButton(c) == c \in {INDEX_CONTENT, USER_BUTTON}

ProjectNames == {"my-nuxt-app", "my-shadcn-vue-app"}

\* s.includes("shadcn-vue")
IncludesShadcnVue(s) == s = "my-shadcn-vue-app"

-----------------------------------------------------------------------------
(* What the project initializer (nuxi init) may leave behind.              *)

PkgWorlds ==
    {[state |-> "missing", name |-> "", rest |-> "", fmt |-> ""],
     [state |-> "invalid", name |-> "", rest |-> "", fmt |-> "tabs"],
     [state |-> "ok", name |-> "nuxt-app", rest |-> "scripts, dependencies", fmt |-> "tabs"]}

\* tsconfig.json: does it exist, is it JSON once its comments are gone, has
\* it comments, a compilerOptions object, a baseUrl, a paths object, and a
\* glob such as "**/*.ts" (which holds the two characters that close a block
\* comment) after compilerOptions
NoTsconfig ==
    [exists |-> FALSE, parses |-> FALSE, comments |-> FALSE, co |-> FALSE,
     baseUrl |-> "none", paths |-> "none", glob |-> FALSE, fmt |-> ""]

TsWorlds ==
    {NoTsconfig,
     [exists |-> TRUE, parses |-> TRUE, comments |-> TRUE, co |-> FALSE,
      baseUrl |-> "none", paths |-> "none", glob |-> TRUE, fmt |-> "tabs"],
     [exists |-> TRUE, parses |-> TRUE, comments |-> FALSE, co |-> TRUE,
      baseUrl |-> "./src", paths |-> "other", glob |-> FALSE, fmt |-> "2sp"],
     [exists |-> TRUE, parses |-> FALSE, comments |-> FALSE, co |-> TRUE,
      baseUrl |-> "./src", paths |-> "none", glob |-> FALSE, fmt |-> "tabs"],
     [exists |-> TRUE, parses |-> FALSE, comments |-> FALSE, co |-> TRUE,
      baseUrl |-> "none", paths |-> "none", glob |-> FALSE, fmt |-> "tabs"]}

NoArray ==
    [mods |-> "none", entries |-> <<>>, quote |-> <<>>, sep |-> <<COMMA>>, trail |-> <<>>]

StdArray ==
    [mods |-> T_MODS, entries |-> <<"@x/image", "pinia">>, quote |-> <<SQ>>,
     sep |-> <<COMMA, SP>>, trail |-> <<>>]

\* the nuxt.config.ts the initializer writes: the template's, one with an
\* empty modules array, one without the array, one without the factory
\* call, one already patched, and none at all
CfgInputs ==
    {[imp |-> FALSE, dnc |-> "bare", shadcn |-> FALSE] @@ StdArray,
     [imp |-> FALSE, dnc |-> "bare", shadcn |-> FALSE] @@ [StdArray EXCEPT !.entries = <<>>],
     [imp |-> FALSE, dnc |-> "bare", shadcn |-> FALSE] @@ NoArray,
     [imp |-> FALSE, dnc |-> "none", shadcn |-> FALSE] @@ StdArray,
     [imp |-> TRUE, dnc |-> "defaults", shadcn |-> TRUE]
        @@ [StdArray EXCEPT !.entries = <<"pinia", SHADCN_NUXT>>]}

CfgWorlds ==
    {[exists |-> FALSE, text |-> <<>>]}
      \cup {[exists |-> TRUE, text |-> Render(in)] : in \in CfgInputs}

Worlds ==
    [legacy : BOOLEAN,
     appVue : BOOLEAN,
     index : {"absent", USER_PLAIN, USER_BUTTON},
     layout : BOOLEAN,
     store : BOOLEAN,
     button : BOOLEAN,
     extraDirs : BOOLEAN,
     cfg : CfgWorlds,
     pkg : PkgWorlds,
     ts : TsWorlds]

NoWorld ==
    [legacy |-> FALSE, appVue |-> FALSE, index |-> "absent", layout |-> FALSE,
     store |-> FALSE, button |-> FALSE, extraDirs |-> FALSE,
     cfg |-> [exists |-> FALSE, text |-> <<>>],
     pkg |-> [state |-> "missing", name |-> "", rest |-> "", fmt |-> ""],
     ts |-> NoTsconfig]

\* the files of a world, as <<path, content>> pairs
WorldPairs(w) ==
    (IF w.legacy
       THEN {<<<<"components", "Foo.vue">>, USER_PLAIN>>,
             <<<<"pages", "about.vue">>, USER_PLAIN>>,
             <<P_APP_VUE_SRC, USER_PLAIN>>}
       ELSE {})
      \cup (IF w.appVue THEN {<<P_APP_VUE, USER_PLAIN>>} ELSE {})
      \cup (IF w.index # "absent" THEN {<<P_INDEX, w.index>>} ELSE {})
      \cup (IF w.layout THEN {<<P_LAYOUT, USER_PLAIN>>} ELSE {})
      \cup (IF w.store THEN {<<P_STORE, USER_PLAIN>>} ELSE {})
      \cup (IF w.button THEN {<<P_BUTTON, USER_PLAIN>>} ELSE {})

WorldFiles(w) ==
    LET pairs == WorldPairs(w) IN
    [p \in {pr[1] : pr \in pairs} |-> (CHOOSE pr \in pairs : pr[1] = p)[2]]

WorldDirs(w) ==
    UNION {Prefixes(Parent(pr[1])) : pr \in WorldPairs(w)}
      \cup (IF w.extraDirs THEN {APP, <<"app", "composables">>, <<"app", "lib">>} ELSE {})

-----------------------------------------------------------------------------
(* The patch operations applied on their own: an operation is applied to   *)
(* a rendered text and then once more to its own output.                   *)

\* the locals cfg, cfg1 and cfg2 before the first readFile
NoRead == [text |-> <<>>, epoch |-> 0]

\* the pipeline's variables while the patch operations are tried on their own
PipeIdle ==
    /\ pc = "idle"
    /\ runState = "PENDING"
    /\ exitCode = "none"
    /\ out = <<>>
    /\ trace = <<>>
    /\ projectName = "my-nuxt-app"
    /\ dirs = {}
    /\ files = <<>>
    /\ cfgDisk = <<>>
    /\ pkg = "missing"
    /\ tsconfig = "missing"
    /\ isNuxt4Structure = FALSE
    /\ world = NoWorld
    /\ cfgMem = NoRead
    /\ cfgEpoch = 0

\* the variables of step 8 applied on its own, while it is not
LayoutIdle ==
    /\ tree0 = [dirs |-> {}, files |-> <<>>]
    /\ prevTree = tree0
    /\ ops = <<>>

NoOp == [op |-> "none", arg |-> ""]

InitPatch ==
    /\ PipeIdle
    /\ LayoutIdle
    /\ input \in {in \in Inputs : WellFormedInput(in)}
    /\ doc = Render(input)
    /\ prevDoc = doc
    /\ lastOp = NoOp
    /\ phase = "input"

\* an operation is applied to the input, then once more to its own output
Apply(op, result) ==
    /\ phase \in {"input", "once"}
    /\ phase = "once" => lastOp = op
    /\ phase' = IF phase = "input" THEN "once" ELSE "twice"
    /\ lastOp' = op
    /\ prevDoc' = doc
    /\ doc' = result
    /\ UNCHANGED <<input, pipeVars, layoutVars>>

ApplyEnsureImport ==
    Apply([op |-> "ensureImport", arg |-> ""], ensureImport(doc))

ApplyEnsureTopLevelDefaults ==
    Apply([op |-> "ensureTopLevelDefaults", arg |-> ""], ensureTopLevelDefaults(doc))

ApplyMergeIntoModuleList ==
    \E m \in {"pinia", SHADCN_NUXT} :
        Apply([op |-> "mergeIntoModuleList", arg |-> m], mergeIntoModuleList(doc, m))

ApplyInsertKeyBlockIfAbsent ==
    Apply([op |-> "insertKeyBlockIfAbsent", arg |-> ""], insertKeyBlockIfAbsent(doc))

NextPatch ==
    \/ ApplyEnsureImport
    \/ ApplyEnsureTopLevelDefaults
    \/ ApplyMergeIntoModuleList
    \/ ApplyInsertKeyBlockIfAbsent

SpecPatch == InitPatch /\ [][NextPatch]_vars

-----------------------------------------------------------------------------
(* The pipeline: one action per step of the async function.                *)

MSG_FAIL == "Scaffolding process failed"
MSG_ERROR == "Error details"
MSG_HINTS == "There was an issue with shadcn-vue initialization. You can try: 1. 2. 3."
MSG_SHADCN_WARN == "shadcn-vue initialization failed, continuing without it"
MSG_BUTTON_WARN == "Failed to add shadcn Button component, continuing without it"
MSG_TS_WARN == "Error updating tsconfig.json"
MSG_TS_FALLBACK_WARN == "Fallback method also failed"
MSG_TS_MISSING == "tsconfig.json not found, skipping path mapping update"
MSG_SUCCESS == "Nuxt 4 project has been created"

PatchIdle ==
    /\ doc = <<>>
    /\ prevDoc = <<>>
    /\ input = [imp |-> FALSE, dnc |-> "none", shadcn |-> FALSE] @@ NoArray
    /\ lastOp = NoOp
    /\ phase = "idle"

Init ==
    /\ pc = "s1_prompt"
    /\ runState = "PENDING"
    /\ exitCode = "none"
    /\ out = <<>>
    /\ trace = <<>>
    /\ projectName = ""
    /\ dirs = {}
    /\ files = <<>>
    /\ cfgDisk = [exists |-> FALSE, text |-> <<>>]
    /\ pkg = NoWorld.pkg
    /\ tsconfig = NoTsconfig
    /\ isNuxt4Structure = FALSE
    /\ world = NoWorld
    /\ cfgMem = NoRead
    /\ cfgEpoch = 0
    /\ PatchIdle
    /\ LayoutIdle

\* does the message of an error of this kind include "shadcn-vue"?  A tool's
\* error quotes its command line and a filesystem error its path, and both
\* hold the project name; JSON.parse's message holds neither.
ErrorIncludesShadcnVue(kind) ==
    kind \in {"tool", "fs"} /\ IncludesShadcnVue(projectName)

\* an outer catch that would print and let the function return
Abort_noExit(events, kind) ==
    /\ runState' = "FAILED"
    /\ exitCode' = "0"
    /\ pc' = "done"
    /\ trace' = trace \o events
    /\ out' = out \o <<MSG_FAIL, MSG_ERROR>>
                \o (IF ErrorIncludesShadcnVue(kind) THEN <<MSG_HINTS>> ELSE <<>>)

\* the outer catch (lines 401-414): the error is printed, the hints when
\* its message includes "shadcn-vue", and the process exits with status 1
Abort(events, kind) ==
    /\ runState' = "FAILED"
    /\ exitCode' = "1"
    /\ pc' = "done"
    /\ trace' = trace \o events
    /\ out' = out \o <<MSG_FAIL, MSG_ERROR>>
                \o (IF ErrorIncludesShadcnVue(kind) THEN <<MSG_HINTS>> ELSE <<>>)

\* the step is over and the function goes on with the next statement
Goto(next, events, printed) ==
    /\ pc' = next
    /\ trace' = trace \o events
    /\ out' = out \o printed
    /\ UNCHANGED <<runState, exitCode>>

\* an external tool is run (execa): whatever it did to nuxt.config.ts, the
\* file is in a new epoch
ToolInvoked == cfgEpoch' = cfgEpoch + 1 /\ UNCHANGED cfgMem

\* the statement neither reads nor writes nuxt.config.ts and runs no tool
NoConfigAccess == UNCHANGED <<cfgMem, cfgEpoch>>

\* fs.readFile(nuxtConfigPath, "utf8") into the step's local
ReadConfig_cached == cfgMem

ReadConfig == [text |-> cfgDisk.text, epoch |-> cfgEpoch]

\* the step's readFile, patch and writeFile of nuxt.config.ts
RewriteConfig(wok, patched) ==
    IF ~cfgDisk.exists
    THEN UNCHANGED <<cfgDisk, cfgMem, cfgEpoch>>
    ELSE /\ cfgMem' = ReadConfig
         /\ IF wok
            THEN /\ cfgDisk' = [cfgDisk EXCEPT !.text = patched]
                 /\ cfgEpoch' = cfgEpoch + 1
            ELSE UNCHANGED <<cfgDisk, cfgEpoch>>

\* step 1 (lines 13-29)
Prompt ==
    /\ pc = "s1_prompt"
    /\ projectName' \in ProjectNames
    /\ runState' = "RUNNING"
    /\ pc' = "s2_init"
    /\ NoConfigAccess
    /\ UNCHANGED <<exitCode, out, trace, dirs, files, cfgDisk, pkg, tsconfig,
                   isNuxt4Structure, world, patchVars, layoutVars>>

\* step 2 (lines 33-39): bunx nuxi init
InitProject ==
    /\ pc = "s2_init"
    /\ \E ok \in BOOLEAN :
         IF ok
         THEN /\ \E w \in Worlds :
                   /\ world' = w
                   /\ dirs' = WorldDirs(w)
                   /\ files' = WorldFiles(w)
                   /\ cfgDisk' = w.cfg
                   /\ pkg' = w.pkg
                   /\ tsconfig' = w.ts
              /\ Goto("s2_package_name", <<<<"init", "ok">>>>, <<>>)
         ELSE /\ Abort(<<<<"init", "fail">>>>, "tool")
              /\ UNCHANGED <<world, dirs, files, cfgDisk, pkg, tsconfig>>
    /\ ToolInvoked
    /\ UNCHANGED <<projectName, isNuxt4Structure, patchVars, layoutVars>>

\* lines 42-45: pkgObj.name = projectName, then JSON.stringify(pkgObj, null, 2)
RenamedPackage_onlyName(p, name) ==
    [p EXCEPT !.name = name, !.rest = "", !.fmt = "2sp"]

RenamedPackage(p, name) == [p EXCEPT !.name = name, !.fmt = "2sp"]

\* lines 40-45: package.json is read, parsed, renamed and written back
UpdatePackageName ==
    /\ pc = "s2_package_name"
    /\ \E wok \in BOOLEAN :
         IF pkg.state = "missing"
         THEN Abort(<<<<"package_name", "fail">>>>, "fs") /\ UNCHANGED pkg
         ELSE IF pkg.state = "invalid"
         THEN Abort(<<<<"package_name", "fail">>>>, "parse") /\ UNCHANGED pkg
         ELSE IF ~wok
         THEN Abort(<<<<"package_name", "fail">>>>, "fs") /\ UNCHANGED pkg
         ELSE /\ pkg' = RenamedPackage(pkg, projectName)
              /\ Goto("s3_configure", <<<<"package_name", "ok">>>>, <<>>)
    /\ NoConfigAccess
    /\ UNCHANGED <<projectName, dirs, files, cfgDisk, tsconfig, isNuxt4Structure,
                   world, patchVars, layoutVars>>

\* step 3 (lines 48-57)
ConfigureNuxtConfig ==
    /\ pc = "s3_configure"
    /\ \E wok \in BOOLEAN :
         /\ RewriteConfig(wok, normalizeFactoryCall(ReadConfig.text))
         /\ IF ~cfgDisk.exists \/ ~wok
            THEN Abort(<<<<"configure", "fail">>>>, "fs")
            ELSE Goto("s4_install", <<<<"configure", "ok">>>>, <<>>)
    /\ UNCHANGED <<projectName, dirs, files, pkg, tsconfig, isNuxt4Structure,
                   world, patchVars, layoutVars>>

\* step 4 (lines 60-67): bun add typescript, tailwindcss
InstallDependencies ==
    /\ pc = "s4_install"
    /\ \E ok \in BOOLEAN :
         IF ok
         THEN /\ pkg' = [pkg EXCEPT !.rest = "scripts, dependencies, tailwindcss"]
              /\ Goto("s4_tsconfig", <<<<"install", "ok">>>>, <<>>)
         ELSE /\ Abort(<<<<"install", "fail">>>>, "tool")
              /\ UNCHANGED pkg
    /\ ToolInvoked
    /\ UNCHANGED <<projectName, dirs, files, cfgDisk, tsconfig, isNuxt4Structure,
                   world, patchVars, layoutVars>>

\* lines 78-82: the two comment-stripping replaces, then JSON.parse.  A
\* paths key such as "@/*" opens a block comment that a later glob closes,
\* and what is left is not JSON.
StripsToJson(t) == t.parses /\ ~(t.paths # "none" /\ t.glob)

\* lines 82-94: the parsed tsconfig with baseUrl and paths set, serialized
TsconfigRewritten_keepsBaseUrl(t) ==
    [t EXCEPT !.comments = FALSE, !.co = TRUE,
              !.baseUrl = IF t.baseUrl = "none" THEN "." ELSE t.baseUrl,
              !.paths = "app", !.fmt = "2sp"]

TsconfigRewritten(t) ==
    [t EXCEPT !.comments = FALSE, !.co = TRUE, !.baseUrl = ".", !.paths = "app",
              !.fmt = "2sp"]

\* lines 101-120: the textual fallback
TsconfigFallback(t) ==
    IF t.paths # "none" THEN t
    ELSE IF t.baseUrl # "none" THEN [t EXCEPT !.baseUrl = ".", !.paths = "app"]
    ELSE IF t.co THEN [t EXCEPT !.baseUrl = ".", !.paths = "app"]
    ELSE t

\* lines 72-128: what the step leaves on disk and how it ended, given
\* whether the rewrite's and the fallback's file operations succeed
TsconfigStep(t, wok, fok) ==
    IF ~t.exists THEN [t |-> t, outcome |-> "missing"]
    ELSE IF StripsToJson(t) /\ wok THEN [t |-> TsconfigRewritten(t), outcome |-> "ok"]
    ELSE IF fok THEN [t |-> TsconfigFallback(t), outcome |-> "fallback"]
    ELSE [t |-> t, outcome |-> "fail"]

\* lines 96, 122, 126: the warnings of each outcome
TsconfigWarnings(outcome) ==
    CASE outcome = "missing" -> <<MSG_TS_MISSING>>
      [] outcome = "ok" -> <<>>
      [] outcome = "fallback" -> <<MSG_TS_WARN>>
      [] outcome = "fail" -> <<MSG_TS_WARN, MSG_TS_FALLBACK_WARN>>

\* lines 69-128
UpdateTsconfig ==
    /\ pc = "s4_tsconfig"
    /\ \E wok \in BOOLEAN, fok \in BOOLEAN :
         LET r == TsconfigStep(tsconfig, wok, fok) IN
         /\ tsconfig' = r.t
         /\ Goto("s4_tailwind", <<<<"tsconfig", r.outcome>>>>, TsconfigWarnings(r.outcome))
    /\ NoConfigAccess
    /\ UNCHANGED <<projectName, dirs, files, cfgDisk, pkg, isNuxt4Structure,
                   world, patchVars, layoutVars>>

\* lines 130-137: app/assets/css/tailwind.css
WriteTailwindCss ==
    /\ pc = "s4_tailwind"
    /\ dirs' = EnsureDir(EnsureDir(dirs, APP), P_CSS_DIR)
    /\ \E wok \in BOOLEAN :
         IF wok
         THEN /\ files' = WriteFile(files, P_CSS, CSS_CONTENT)
              /\ Goto("s4_patch_config", <<<<"tailwind_css", "ok">>>>, <<>>)
         ELSE /\ Abort(<<<<"tailwind_css", "fail">>>>, "fs")
              /\ UNCHANGED files
    /\ NoConfigAccess
    /\ UNCHANGED <<projectName, cfgDisk, pkg, tsconfig, isNuxt4Structure,
                   world, patchVars, layoutVars>>

\* lines 139-151: the css and vite defaults and the import
PatchTailwindConfig ==
    /\ pc = "s4_patch_config"
    /\ \E wok \in BOOLEAN :
         /\ RewriteConfig(wok, ensureImport(ensureTopLevelDefaults(ReadConfig.text)))
         /\ IF ~cfgDisk.exists \/ ~wok
            THEN Abort(<<<<"patch_config", "fail">>>>, "fs")
            ELSE Goto("s5_module_add", <<<<"patch_config", "ok">>>>, <<>>)
    /\ UNCHANGED <<projectName, dirs, files, pkg, tsconfig, isNuxt4Structure,
                   world, patchVars, layoutVars>>

\* what `nuxi module add shadcn-nuxt` may do to nuxt.config.ts: nothing, or
\* the module appended to the first modules array in the tool's own style
ModuleAdderEffects(d) ==
    LET mt == ModulesMatch(d) IN
    {d} \cup
    (IF mt[1] = 0 THEN {}
     ELSE {SubSeq(d, 1, mt[2]-1)
             \o (IF mt[2] = mt[1] + 1 THEN <<>> ELSE <<COMMA, SP>>)
             \o <<DQ, SHADCN_NUXT, DQ, T_RB>>
             \o SubSeq(d, mt[2]+1, Len(d))})

\* step 5 (lines 154-161)
AddShadcnModule ==
    /\ pc = "s5_module_add"
    /\ \E ok \in BOOLEAN :
         IF ok
         THEN /\ \E d \in ModuleAdderEffects(cfgDisk.text) :
                   cfgDisk' = [cfgDisk EXCEPT !.text = d]
              /\ Goto("s6_merge", <<<<"module_add", "ok">>>>, <<>>)
         ELSE /\ Abort(<<<<"module_add", "fail">>>>, "tool")
              /\ UNCHANGED cfgDisk
    /\ ToolInvoked
    /\ UNCHANGED <<projectName, dirs, files, pkg, tsconfig, isNuxt4Structure,
                   world, patchVars, layoutVars>>

\* step 6 (lines 164-192)
MergeModulesAndShadcn ==
    /\ pc = "s6_merge"
    /\ \E wok \in BOOLEAN :
         /\ RewriteConfig(wok, insertKeyBlockIfAbsent(
                                  mergeIntoModuleList(ReadConfig.text, SHADCN_NUXT)))
         /\ IF ~cfgDisk.exists \/ ~wok
            THEN Abort(<<<<"merge", "fail">>>>, "fs")
            ELSE Goto("s6_format", <<<<"merge", "ok">>>>, <<>>)
    /\ UNCHANGED <<projectName, dirs, files, pkg, tsconfig, isNuxt4Structure,
                   world, patchVars, layoutVars>>

\* what `prettier --write` does to the text: its default double quotes
Prettier(d) == [i \in 1..Len(d) |-> IF d[i] = SQ THEN DQ ELSE d[i]]

\* lines 195-202: prettier --write nuxt.config.ts && nuxi prepare
FormatConfig ==
    /\ pc = "s6_format"
    /\ \E ok \in BOOLEAN :
         IF ok
         THEN /\ cfgDisk' = [cfgDisk EXCEPT !.text = Prettier(cfgDisk.text)]
              /\ Goto("s7_shadcn_init", <<<<"format", "ok">>>>, <<>>)
         ELSE /\ Abort(<<<<"format", "fail">>>>, "tool")
              /\ UNCHANGED cfgDisk
    /\ ToolInvoked
    /\ UNCHANGED <<projectName, dirs, files, pkg, tsconfig, isNuxt4Structure,
                   world, patchVars, layoutVars>>

\* step 7 (lines 205-218): shadcn-vue init, its failure caught on the spot
InitShadcnVue ==
    /\ pc = "s7_shadcn_init"
    /\ \E ok \in BOOLEAN :
         IF ok
         THEN /\ dirs' = EnsureDir(dirs, <<"app", "lib">>)
              /\ files' = WriteFile(files, <<"app", "lib", "utils.ts">>, TOOL_CONTENT)
              /\ Goto("s8_reorganize", <<<<"shadcn_init", "ok">>>>, <<>>)
         ELSE /\ UNCHANGED <<dirs, files>>
              /\ Goto("s8_reorganize", <<<<"shadcn_init", "fail">>>>, <<MSG_SHADCN_WARN>>)
    /\ ToolInvoked
    /\ UNCHANGED <<projectName, cfgDisk, pkg, tsconfig, isNuxt4Structure,
                   world, patchVars, layoutVars>>

\* lines 248-257: the loop over the items from the k-th on
RECURSIVE Migrate(_, _, _)
Migrate(k, D, F) ==
    IF k > Len(Items) THEN [dirs |-> D, files |-> F]
    ELSE LET src == <<Items[k]>>
             dest == <<"app", Items[k]>>
             D1 == EnsureDir(D, dest)
         IN IF PathExists(D1, F, src)
            THEN Migrate(k + 1, MoveDirs(D1, src, dest), MoveFiles(F, src, dest))
            ELSE Migrate(k + 1, D1, F)

\* lines 221-234: app/ is ensured, then its existence and its entries are
\* looked at
InspectLayout_existenceOnly(D, F) ==
    LET D1 == EnsureDir(D, APP)
        nuxt4 == PathExists(D1, F, APP)
    IN [dirs |-> D1, isNuxt4Structure |-> nuxt4, hasAppContents |-> nuxt4]

InspectLayout(D, F) ==
    LET D1 == EnsureDir(D, APP)
        nuxt4 == PathExists(D1, F, APP)
    IN [dirs |-> D1, isNuxt4Structure |-> nuxt4,
        hasAppContents |-> nuxt4 /\ Readdir(D1, F, APP) # {}]

\* line 236: the branch taken, in the words of the specification
Verdict(i) == IF i.isNuxt4Structure /\ i.hasAppContents THEN "TARGET" ELSE "LEGACY"

\* lines 221-258: the tree step 8 leaves, and its verdict
Reorganize(D, F) ==
    LET i == InspectLayout(D, F) IN
    IF Verdict(i) = "TARGET"
    THEN [dirs |-> i.dirs, files |-> F, verdict |-> "TARGET",
          isNuxt4Structure |-> i.isNuxt4Structure]
    ELSE Migrate(1, i.dirs, F)
           @@ [verdict |-> "LEGACY", isNuxt4Structure |-> i.isNuxt4Structure]

\* step 8 (lines 221-258)
ReorganizeLayout ==
    /\ pc = "s8_reorganize"
    /\ \E ok \in BOOLEAN :
         IF ok
         THEN LET after == Reorganize(dirs, files)
              IN /\ isNuxt4Structure' = after.isNuxt4Structure
                 /\ dirs' = after.dirs
                 /\ files' = after.files
                 /\ Goto("s8_prepare",
                         <<<<"reorganize", IF after.verdict = "TARGET"
                                           THEN "skipped" ELSE "ok">>>>, <<>>)
         ELSE /\ Abort(<<<<"reorganize", "fail">>>>, "fs")
              /\ UNCHANGED <<dirs, files, isNuxt4Structure>>
    /\ NoConfigAccess
    /\ UNCHANGED <<projectName, cfgDisk, pkg, tsconfig, world, patchVars, layoutVars>>

\* lines 260-263: nuxi prepare
NuxiPrepare ==
    /\ pc = "s8_prepare"
    /\ \E ok \in BOOLEAN :
         IF ok
         THEN Goto("s9_app_vue", <<<<"prepare", "ok">>>>, <<>>)
         ELSE Abort(<<<<"prepare", "fail">>>>, "tool")
    /\ ToolInvoked
    /\ UNCHANGED <<projectName, dirs, files, cfgDisk, pkg, tsconfig,
                   isNuxt4Structure, world, patchVars, layoutVars>>

\* step 9 (lines 266-293)
MaterializeAppVue ==
    /\ pc = "s9_app_vue"
    /\ \E wok \in BOOLEAN :
         IF ~isNuxt4Structure /\ PathExists(dirs, files, P_APP_VUE_SRC)
         THEN IF PathExists(dirs, files, P_APP_VUE) \/ ~wok
              THEN Abort(<<<<"app_vue", "fail">>>>, "fs") /\ UNCHANGED files
              ELSE /\ files' = WriteFile(MoveFiles(files, P_APP_VUE_SRC, P_APP_VUE),
                                         P_APP_VUE, APP_VUE_CONTENT)
                   /\ Goto("s10_layout", <<<<"app_vue", "moved">>>>, <<>>)
         ELSE IF ~PathExists(dirs, files, P_APP_VUE)
         THEN IF wok /\ CanWrite(dirs, P_APP_VUE)
              THEN /\ files' = WriteFile(files, P_APP_VUE, APP_VUE_CONTENT)
                   /\ Goto("s10_layout", <<<<"app_vue", "created">>>>, <<>>)
              ELSE Abort(<<<<"app_vue", "fail">>>>, "fs") /\ UNCHANGED files
         ELSE /\ UNCHANGED files
              /\ Goto("s10_layout", <<<<"app_vue", "skipped">>>>, <<>>)
    /\ NoConfigAccess
    /\ UNCHANGED <<projectName, dirs, cfgDisk, pkg, tsconfig, isNuxt4Structure,
                   world, patchVars, layoutVars>>

\* steps 10, 11 and 12: the directory is ensured, then the file is written
\* unless the path exists
MaterializeStarter(here, next, step, dir, path, content) ==
    /\ pc = here
    /\ dirs' = EnsureDir(dirs, dir)
    /\ \E wok \in BOOLEAN :
         IF PathExists(EnsureDir(dirs, dir), files, path)
         THEN /\ UNCHANGED files
              /\ Goto(next, <<<<step, "skipped">>>>, <<>>)
         ELSE IF wok
         THEN /\ files' = WriteFile(files, path, content)
              /\ Goto(next, <<<<step, "created">>>>, <<>>)
         ELSE /\ Abort(<<<<step, "fail">>>>, "fs")
              /\ UNCHANGED files
    /\ NoConfigAccess
    /\ UNCHANGED <<projectName, cfgDisk, pkg, tsconfig, isNuxt4Structure,
                   world, patchVars, layoutVars>>

\* step 10 (lines 296-311)
MaterializeDefaultLayout ==
    MaterializeStarter("s10_layout", "s11_index", "default_layout",
                       P_LAYOUT_DIR, P_LAYOUT, LAYOUT_CONTENT)

\* step 11 (lines 314-334)
MaterializeIndexPage ==
    MaterializeStarter("s11_index", "s12_store", "index_page",
                       P_PAGE_DIR, P_INDEX, INDEX_CONTENT)

\* step 12 (lines 337-355)
MaterializeExampleStore ==
    MaterializeStarter("s12_store", "s13_button", "example_store",
                       P_STORES_DIR, P_STORE, STORE_CONTENT)

\* step 13 (lines 359-392): shadcn-vue add button, its failure caught on the
\* spot; the handler rewrites index.vue when it holds the button
AddButton ==
    /\ pc = "s13_button"
    /\ \E ok \in BOOLEAN, wok \in BOOLEAN :
         LET D1 == EnsureDir(dirs, P_UI_DIR) IN
         IF PathExists(D1, files, P_BUTTON)
         THEN /\ dirs' = D1
              /\ UNCHANGED files
              /\ Goto("s14_finish", <<<<"button", "skipped">>>>, <<>>)
         ELSE IF ok
         THEN /\ dirs' = EnsureDir(D1, <<"app", "components", "ui", "button">>)
              /\ files' = WriteFile(files, <<"app", "components", "ui", "button", "Button.vue">>,
                                    TOOL_CONTENT)
              /\ Goto("s14_finish", <<<<"button", "ok">>>>, <<>>)
         ELSE IF ~PathExists(D1, files, P_INDEX) \/ IncludesButton(files[P_INDEX])
         THEN IF wok
              THEN /\ dirs' = D1
                   /\ files' = WriteFile(files, P_INDEX, UPDATED_INDEX_CONTENT)
                   /\ Goto("s14_finish",
                           <<<<"button", "fail">>, <<"index_rewrite", "ok">>>>,
                           <<MSG_BUTTON_WARN>>)
              ELSE /\ dirs' = D1
                   /\ UNCHANGED files
                   /\ Abort(<<<<"button", "fail">>, <<"index_rewrite", "fail">>>>, "fs")
         ELSE /\ dirs' = D1
              /\ UNCHANGED files
              /\ Goto("s14_finish", <<<<"button", "fail">>>>, <<MSG_BUTTON_WARN>>)
    /\ IF PathExists(EnsureDir(dirs, P_UI_DIR), files, P_BUTTON)
       THEN NoConfigAccess
       ELSE ToolInvoked
    /\ UNCHANGED <<projectName, cfgDisk, pkg, tsconfig, isNuxt4Structure,
                   world, patchVars, layoutVars>>

\* lines 393-400: the success message; the function returns and the process
\* ends with status 0
Finish ==
    /\ pc = "s14_finish"
    /\ runState' = "COMPLETED"
    /\ exitCode' = "0"
    /\ pc' = "done"
    /\ out' = Append(out, MSG_SUCCESS)
    /\ NoConfigAccess
    /\ UNCHANGED <<trace, projectName, dirs, files, cfgDisk, pkg, tsconfig,
                   isNuxt4Structure, world, patchVars, layoutVars>>

Next ==
    \/ Prompt
    \/ InitProject
    \/ UpdatePackageName
    \/ ConfigureNuxtConfig
    \/ InstallDependencies
    \/ UpdateTsconfig
    \/ WriteTailwindCss
    \/ PatchTailwindConfig
    \/ AddShadcnModule
    \/ MergeModulesAndShadcn
    \/ FormatConfig
    \/ InitShadcnVue
    \/ ReorganizeLayout
    \/ NuxiPrepare
    \/ MaterializeAppVue
    \/ MaterializeDefaultLayout
    \/ MaterializeIndexPage
    \/ MaterializeExampleStore
    \/ AddButton
    \/ Finish

Spec == Init /\ [][Next]_vars

-----------------------------------------------------------------------------
(* Step 8 applied on its own: its inspection (lines 221-234), its loop     *)
(* (lines 248-257) and the whole step (lines 221-258) are applied, up to   *)
(* MaxLayoutOps times in a row, to the trees an initializer may leave.     *)

\* the items whose directories vary from tree to tree
LayoutItems == {"components", "pages", "lib"}

\* a directory is absent, empty, or holds files
ItemShapes == {"absent", "empty", "files"}

LayoutInputs ==
    [root : [LayoutItems -> ItemShapes],
     app : [LayoutItems -> ItemShapes],
     appDir : BOOLEAN,
     appVue : BOOLEAN]

\* the files of a tree, as <<path, content>> pairs: a root-level item holds
\* a file and a subdirectory, its counterpart under app/ a file of the same
\* name and one of its own
TreePairs(in) ==
    UNION {IF in.root[it] = "files"
           THEN {<<<<it, "a.vue">>, "root a">>, <<<<it, "sub", "b.vue">>, "root b">>}
           ELSE {} : it \in LayoutItems}
      \cup UNION {IF in.app[it] = "files"
                  THEN {<<<<"app", it, "a.vue">>, "app a">>,
                        <<<<"app", it, "c.vue">>, "app c">>}
                  ELSE {} : it \in LayoutItems}
      \cup (IF in.appVue THEN {<<P_APP_VUE, USER_PLAIN>>} ELSE {})

TreeFiles(in) ==
    LET pairs == TreePairs(in) IN
    [p \in {pr[1] : pr \in pairs} |-> (CHOOSE pr \in pairs : pr[1] = p)[2]]

TreeDirs(in) ==
    UNION {Prefixes(Parent(pr[1])) : pr \in TreePairs(in)}
      \cup {<<it>> : it \in {x \in LayoutItems : in.root[x] # "absent"}}
      \cup UNION {{APP, <<"app", it>>} : it \in {x \in LayoutItems : in.app[x] # "absent"}}
      \cup (IF in.appDir THEN {APP} ELSE {})

InitLayout ==
    /\ pc = "idle"
    /\ runState = "PENDING"
    /\ exitCode = "none"
    /\ out = <<>>
    /\ trace = <<>>
    /\ projectName = "my-nuxt-app"
    /\ \E in \in LayoutInputs :
         /\ dirs = TreeDirs(in)
         /\ files = TreeFiles(in)
    /\ cfgDisk = NoWorld.cfg
    /\ pkg = NoWorld.pkg
    /\ tsconfig = NoTsconfig
    /\ isNuxt4Structure = FALSE
    /\ world = NoWorld
    /\ cfgMem = NoRead
    /\ cfgEpoch = 0
    /\ PatchIdle
    /\ tree0 = [dirs |-> dirs, files |-> files]
    /\ prevTree = tree0
    /\ ops = <<>>

\* an operation of step 8 is applied to the tree
ApplyLayoutOp(name, after, verdict) ==
    /\ Len(ops) < MaxLayoutOps
    /\ prevTree' = [dirs |-> dirs, files |-> files]
    /\ dirs' = after.dirs
    /\ files' = after.files
    /\ ops' = Append(ops, [op |-> name, verdict |-> verdict])
    /\ UNCHANGED <<pc, runState, exitCode, out, trace, projectName, cfgDisk, pkg,
                   tsconfig, world, cfgMem, cfgEpoch, patchVars, tree0>>

\* lines 221-234
ApplyInspect ==
    LET i == InspectLayout(dirs, files) IN
    /\ ApplyLayoutOp("inspect", [dirs |-> i.dirs, files |-> files], Verdict(i))
    /\ isNuxt4Structure' = i.isNuxt4Structure

\* lines 248-257
ApplyMigrate ==
    /\ ApplyLayoutOp("migrate", Migrate(1, dirs, files), "none")
    /\ UNCHANGED isNuxt4Structure

\* lines 221-258
ApplyReorganize ==
    LET after == Reorganize(dirs, files) IN
    /\ ApplyLayoutOp("reorganize", after, after.verdict)
    /\ isNuxt4Structure' = after.isNuxt4Structure

NextLayout ==
    \/ ApplyInspect
    \/ ApplyMigrate
    \/ ApplyReorganize

SpecLayout == InitLayout /\ [][NextLayout]_vars

-----------------------------------------------------------------------------
(* Properties of the pipeline.                                             *)

Range(f) == {f[k] : k \in DOMAIN f}

\* the events the step being taken adds to the trace
NewEvents == {trace'[k] : k \in (Len(trace) + 1)..Len(trace')}

WarnTools == {"shadcn_init", "button"}
AbortTools == {"init", "install", "module_add"}

\* C1: a failure of a WARN_AND_CONTINUE step (shadcn-vue init, shadcn-vue
\* add button) never ends the run or makes it FAILED; a failure of an ABORT
\* step (initializer, installer, module-adder) makes it FAILED, and once
\* FAILED nothing is invoked or written any more.
C1_FailureIsolation ==
    [][/\ \A e \in NewEvents :
            /\ (e[1] \in WarnTools /\ e[2] = "fail")
                  => (runState' # "FAILED" /\ pc' # "done")
            /\ (e[1] \in AbortTools /\ e[2] = "fail") => runState' = "FAILED"
       /\ runState = "FAILED"
            => UNCHANGED <<dirs, files, cfgDisk, pkg, tsconfig, trace>>]_vars

\* C1 holds of every failure but the one whose handler fails to rewrite
\* index.vue
C1_ExceptHandlerWrite ==
    [][/\ \A e \in NewEvents :
            /\ (/\ e[1] \in WarnTools /\ e[2] = "fail"
                /\ <<"index_rewrite", "fail">> \notin NewEvents)
                  => (runState' # "FAILED" /\ pc' # "done")
            /\ (e[1] \in AbortTools /\ e[2] = "fail") => runState' = "FAILED"
       /\ runState = "FAILED"
            => UNCHANGED <<dirs, files, cfgDisk, pkg, tsconfig, trace>>]_vars

StarterSteps == {"app_vue", "default_layout", "index_page", "example_store"}

\* C2: a failed write of a starter file (app.vue, default layout, index
\* page, example store) is a warning: the run does not become FAILED.
C2_TemplateWriteFailureContinues ==
    \A k \in 1..Len(trace) :
        (trace[k][1] \in StarterSteps /\ trace[k][2] = "fail")
            => runState # "FAILED"

StarterPaths == {P_APP_VUE, P_LAYOUT, P_INDEX, P_STORE}

StepOf(p) ==
    CASE p = P_APP_VUE -> "app_vue"
      [] p = P_LAYOUT -> "default_layout"
      [] p = P_INDEX -> "index_page"
      [] p = P_STORE -> "example_store"

\* C3: a starter file that existed when its materialization step ran (the
\* step skipped it) keeps its content in that step and in every later one,
\* the button step included.
C3_ExistingStarterFilesKept ==
    [][\A p \in StarterPaths :
          (<<StepOf(p), "skipped">> \in Range(trace') /\ p \in DOMAIN files)
              => (p \in DOMAIN files' /\ files'[p] = files[p])]_vars

IdempotentOps == {"ensureImport", "mergeIntoModuleList", "insertKeyBlockIfAbsent"}

\* C4: ensureImport, mergeIntoModuleList and insertKeyBlockIfAbsent are
\* idempotent: the second application of the operation to its own output
\* leaves the text as the first application left it.
C4_PatchIdempotent ==
    (phase = "twice" /\ lastOp.op \in IdempotentOps) => doc = prevDoc

\* an operation of C4 has been applied twice and its first application
\* changed the text
C4_Witness ==
    /\ phase = "twice"
    /\ lastOp.op = "mergeIntoModuleList"
    /\ prevDoc # Render(input)
    /\ Includes(Render(input), {T_MODS_TIGHT})

\* C5: ensureTopLevelDefaults changes nothing when the text already holds
\* one of the default lines (so it changes nothing on its own output).
C5_DefaultsNoOpWhenPresent ==
    (lastOp.op = "ensureTopLevelDefaults" /\ Includes(prevDoc, {T_CSS, T_VITE}))
        => doc = prevDoc

\* the entries C6 expects after merging m into the array of the input
MergedEntries(m) ==
    IF \E k \in 1..Len(input.entries) : input.entries[k] = m
    THEN input.entries
    ELSE Append(input.entries, m)

\* C6: merging m into a modules array with entries e1..en leaves e1..en when
\* m is among them and e1..en, m otherwise, written with single quotes
\* separated by ", "; the rest of the text is untouched.
C6_MergeAppendsOnce ==
    (phase = "once" /\ lastOp.op = "mergeIntoModuleList" /\ input.mods # "none")
        => doc = RenderWith(input,
                    RenderArray(T_MODS, MergedEntries(lastOp.arg),
                                <<SQ>>, <<COMMA, SP>>, <<>>))

\* C6 holds of the arrays that have an entry and no trailing comma
C6_NonEmptyArrays ==
    (input.entries # <<>> /\ input.trail # <<COMMA>>) => C6_MergeAppendsOnce

\* C7: when nuxt.config.ts has no modules array, step 6 fails: the run
\* becomes FAILED and the file is left as it was.
C7_MissingModulesKeyAborts ==
    [][(/\ pc = "s6_merge"
        /\ cfgDisk.exists
        /\ ModulesMatch(cfgDisk.text)[1] = 0)
          => (runState' = "FAILED" /\ cfgDisk' = cfgDisk)]_vars

\* C8: when nuxt.config.ts lacks defineNuxtConfig({, the steps that patch
\* after that token (steps 3 and 4) fail: the run becomes FAILED and the
\* file is left as it was.
C8_MalformedConfigAborts ==
    [][(/\ pc \in {"s3_configure", "s4_patch_config"}
        /\ cfgDisk.exists
        /\ ~Includes(cfgDisk.text, {T_DNC}))
          => (runState' = "FAILED" /\ cfgDisk' = cfgDisk)]_vars

\* C9: a COMPLETED run leaves app/ with each of the fixed subdirectories and
\* with app.vue, the default layout, the index page and the example store.
C9_TargetLayoutComplete ==
    runState = "COMPLETED" =>
        /\ \A k \in 1..Len(Items) : <<"app", Items[k]>> \in dirs
        /\ <<"app", "assets">> \in dirs
        /\ StarterPaths \subseteq DOMAIN files

\* the initializer left core directories at the project root and no app/
LegacyWorld(w) ==
    /\ w.legacy
    /\ ~w.appVue /\ w.index = "absent" /\ ~w.layout /\ ~w.store /\ ~w.button
    /\ ~w.extraDirs

\* the files the initializer left in core directories at the project root
CoreRootPairs(w) ==
    {pr \in WorldPairs(w) : Len(pr[1]) > 1 /\ pr[1][1] \in Range(Items)}

\* C10: a COMPLETED run on a legacy tree has moved the core directories
\* under app/ (their files are in app/<name>, the root directories are
\* gone); on a tree with a populated app/ nothing of app/ is lost.
C10_LegacyReorganized ==
    runState = "COMPLETED" =>
        IF LegacyWorld(world)
        THEN \A pr \in CoreRootPairs(world) :
                /\ <<pr[1][1]>> \notin dirs
                /\ pr[1] \notin DOMAIN files
                /\ <<"app">> \o pr[1] \in DOMAIN files
                /\ files[<<"app">> \o pr[1]] = pr[2]
        ELSE /\ {d \in WorldDirs(world) : d[1] = "app"} \subseteq dirs
             /\ {f \in DOMAIN WorldFiles(world) : f[1] = "app"} \subseteq DOMAIN files

\* on a tree with a populated app/ nothing of app/ is lost (the second half
\* of C10)
C10_Nuxt4Preserved ==
    (runState = "COMPLETED" /\ ~LegacyWorld(world)) => C10_LegacyReorganized

-----------------------------------------------------------------------------
(* Properties of step 8 applied on its own.                                *)

LastOp == ops[Len(ops)]

\* everything below the directory p in the tree T
Under(T, p) == {q \in T.dirs \cup DOMAIN T.files : IsPrefix(p, q) /\ q # p}

Now == [dirs |-> dirs, files |-> files]

\* the project has a root-level pages/, no other core directory at the root
\* and no app/
OnlyRootPages(T) ==
    /\ <<"pages">> \in T.dirs
    /\ {d \in T.dirs : Len(d) = 1} = {<<"pages">>}
    /\ Under(T, APP) = {}

\* app/ exists and has at least one entry
AppPopulated(T) == APP \in T.dirs /\ Under(T, APP) # {}

EntryMigrated(T, it) ==
    LET src == <<it>>
        dest == <<"app", it>>
    IN /\ dest \in dirs
       /\ IF src \in T.dirs
          THEN /\ \A q \in Under(T, src) :
                     LET r == <<"app">> \o q IN
                     /\ q \in T.dirs => r \in dirs
                     /\ q \in DOMAIN T.files => r \in DOMAIN files /\ files[r] = T.files[q]
               /\ Under(Now, dest \o src) = {}
               /\ src \notin dirs
               /\ Under(Now, src) = {}
          ELSE /\ Under(Now, dest) = Under(T, dest)
               /\ \A q \in Under(T, dest) \cap DOMAIN T.files : files[q] = T.files[q]
               /\ Under(Now, src) = {}

C14_VerdictStable ==
    (Len(ops) > 1 /\ LastOp.op = "inspect" /\ ops[Len(ops) - 1].op = "inspect") =>
        LastOp.verdict = ops[Len(ops) - 1].verdict

\* on a tree that has app/ the inspection changes nothing (the case every
\* run of the pipeline is in, app/ being created at lines 131-132)
C14_PureWhenAppExists ==
    (ops # <<>> /\ LastOp.op = "inspect" /\ APP \in prevTree.dirs) => Now = prevTree

-----------------------------------------------------------------------------
(* Properties of the pipeline's end, of the manifest and of the hints.     *)

\* C13: the exit status is 0 exactly when the run is COMPLETED and non-zero
\* exactly when it is FAILED; a FAILED run has printed the error and has
\* not printed the success message.
C13_ExitStatus ==
    /\ exitCode = "0" <=> runState = "COMPLETED"
    /\ exitCode = "1" <=> runState = "FAILED"
    /\ exitCode = "none" <=> runState \in {"PENDING", "RUNNING"}
    /\ runState = "FAILED" =>
          /\ MSG_ERROR \in Range(out)
          /\ MSG_SUCCESS \notin Range(out)

\* a run that went on after a failed shadcn-vue init and then failed
C13_Witness ==
    /\ runState = "FAILED"
    /\ exitCode = "1"
    /\ <<"shadcn_init", "fail">> \in Range(trace)
    /\ out[Len(out)] = MSG_ERROR

\* C15: the manifest step either sets the name of package.json to the
\* project name and leaves every other field as it was, or (the file cannot
\* be read, parsed or written) aborts the run and leaves the file alone.
C15_ManifestRenamed ==
    [][pc = "s2_package_name" =>
         IF pkg.state = "ok" /\ <<"package_name", "ok">> \in NewEvents
         THEN /\ pkg'.name = projectName
              /\ pkg'.rest = pkg.rest
              /\ pkg'.state = "ok"
              /\ runState' = "RUNNING"
         ELSE /\ runState' = "FAILED"
              /\ pkg' = pkg]_vars

\* the manifest step has renamed a package.json that had another name
C15_Witness ==
    /\ pc = "s3_configure"
    /\ world.pkg.name # projectName
    /\ pkg.name = projectName
    /\ pkg.rest = world.pkg.rest

\* C16: the shadcn-vue hints are printed only when the failure reported is
\* that of the shadcn-vue initializer.
C16_HintsOnlyForShadcnVue ==
    MSG_HINTS \in Range(out) => trace[Len(trace)] = <<"shadcn_init", "fail">>

\* the failure of the shadcn-vue initializer never prints the hints: it is
\* caught at line 215 and the run goes on
C16_ShadcnVueFailureWarns ==
    [][NewEvents \cap {<<"shadcn_init", "fail">>} # {} =>
         /\ out' = Append(out, MSG_SHADCN_WARN)
         /\ runState' = "RUNNING"]_vars

-----------------------------------------------------------------------------
(* Properties of the reads and writes of nuxt.config.ts.                   *)

\* the steps that write a patched nuxt.config.ts, and what each writes
PatchSteps == {"configure", "patch_config", "merge"}

PatchOf(step, text) ==
    CASE step = "configure" -> normalizeFactoryCall(text)
      [] step = "patch_config" -> ensureImport(ensureTopLevelDefaults(text))
      [] step = "merge" -> insertKeyBlockIfAbsent(mergeIntoModuleList(text, SHADCN_NUXT))

\* C17: every write of nuxt.config.ts writes the patch of a text read after
\* the last tool invocation and after the last write (the text on disk at
\* the time of the write), and nothing is written once the formatter has
\* run.
C17_NoStaleConfigWrite ==
    [][/\ \A step \in PatchSteps :
            NewEvents \cap {<<step, "ok">>} # {} =>
                /\ cfgMem'.epoch = cfgEpoch
                /\ cfgMem'.text = cfgDisk.text
                /\ cfgDisk'.text = PatchOf(step, cfgDisk.text)
       /\ (\E e \in Range(trace) : e[1] = "format") => cfgDisk' = cfgDisk]_vars

\* step 6 has written the patch of a text the module adder had changed
C17_Witness ==
    /\ pc = "s6_format"
    /\ trace[Len(trace)] = <<"merge", "ok">>
    /\ DQ \in Range(cfgMem.text)
    /\ DQ \notin Range(world.cfg.text)
    /\ cfgMem.epoch + 1 = cfgEpoch

-----------------------------------------------------------------------------
(* Properties of the module array's parsing.                               *)

\* the lexemes between the brackets of the first modules array of d
ArrayBody(d) == SubSeq(d, ModulesMatch(d)[1] + 1, ModulesMatch(d)[2] - 1)

IsPunctuation(x) == x \in {SQ, DQ, COMMA, SP}

\* an entry written as two quotes with nothing between them
HasEmptyEntry(b) == \E i \in 1..(Len(b) - 1) : b[i] = SQ /\ b[i + 1] = SQ

\* C18: merging into an empty array, an array of whitespace only or an
\* array with a trailing comma writes the original entries followed by the
\* module name and no empty entry.
C18_MergeParsesExactTokens ==
    (/\ phase = "once"
     /\ lastOp.op = "mergeIntoModuleList"
     /\ input.mods # "none"
     /\ (input.entries = <<>> \/ input.trail = <<COMMA>>))
        => /\ SelectSeq(ArrayBody(doc), LAMBDA x : ~IsPunctuation(x))
                = MergedEntries(lastOp.arg)
           /\ ~HasEmptyEntry(ArrayBody(doc))

\* whatever the array, the names written are the original ones followed by
\* the module name: the only defect is the empty entry
C18_NamesKept ==
    (phase = "once" /\ lastOp.op = "mergeIntoModuleList" /\ input.mods # "none")
        => SelectSeq(ArrayBody(doc), LAMBDA x : ~IsPunctuation(x))
              = MergedEntries(lastOp.arg)

-----------------------------------------------------------------------------
(* Properties of the tsconfig.json step.                                   *)

C19_BothFailed ==
    /\ pc = "s4_tailwind"
    /\ trace[Len(trace)] = <<"tsconfig", "fail">>
    /\ runState = "RUNNING"

-----------------------------------------------------------------------------
(* Properties of the index page and the button component.                  *)

\* the component adder was run (step 13 found no button.vue)
AdderInvoked == \E e \in Range(trace) : e[1] = "button" /\ e[2] \in {"ok", "fail"}

\* a COMPLETED run that created the index page leaves it referring to the
\* Button only if the adder succeeded or button.vue was already there
IndexMatchesButton ==
    (/\ runState = "COMPLETED"
     /\ <<"index_page", "created">> \in Range(trace)
     /\ IncludesButton(files[P_INDEX]))
        => \/ <<"button", "ok">> \in Range(trace)
           \/ (<<"button", "skipped">> \in Range(trace) /\ P_BUTTON \in DOMAIN files)

\* C20: a COMPLETED run that created the index page leaves it referring to
\* the Button only if the adder succeeded or button.vue was already there;
\* the adder is run only when button.vue is absent; and the adder's failure
\* never makes the run FAILED.
C20_IndexButtonConsistent ==
    /\ IndexMatchesButton
    /\ AdderInvoked => P_BUTTON \notin DOMAIN files
    /\ <<"button", "fail">> \in Range(trace) => runState # "FAILED"

\* C20 but for the write of the failure handler: the index page matches the
\* button, the adder is run only when button.vue is absent, and its failure
\* makes the run FAILED only when the handler's own write of index.vue
\* (line 388) fails
C20_ButForHandlerWrite ==
    /\ IndexMatchesButton
    /\ AdderInvoked => P_BUTTON \notin DOMAIN files
    /\ (<<"button", "fail">> \in Range(trace) /\ runState = "FAILED")
          => <<"index_rewrite", "fail">> \in Range(trace)

\* the adder failed on an index page this run created, and the run COMPLETED
\* with the page rewritten
C20_Rewritten ==
    /\ runState = "COMPLETED"
    /\ <<"index_page", "created">> \in Range(trace)
    /\ <<"button", "fail">> \in Range(trace)
    /\ files[P_INDEX] = UPDATED_INDEX_CONTENT

=============================================================================
